---- MODULE Spec2Model ----
(***************************************************************************)
(* Model of the aletheia_home conversation-migration scripts:              *)
(*   conversation_parser.py   ConversationParser and main()                *)
(*   batch_import_history.py  create_batch, import_batch, batch_import     *)
(*   import_aletheia_history.py, import_conversation.py,                   *)
(*   setup_auth_and_import.py payload preparation and the run of each      *)
(*                            script up to its exit status                 *)
(*                                                                         *)
(* Text is modelled as sequences of characters; a character is a one-      *)
(* element string, with the names BOM (U+FEFF), NL, TAB and M1 M2 M3 (the  *)
(* three characters of the line-number marker in clean_message) for the    *)
(* characters that have no printable ASCII form.  Points in time are       *)
(* integers counted in minutes from the start of the script.               *)
(***************************************************************************)
EXTENDS Integers, Sequences, FiniteSets, TLC

\* ------------------------------------------------------------------------
\* Bounds of the model
\* ------------------------------------------------------------------------
MaxLines == 3        \* longest enumerated transcript, in lines
MaxSeed == 0         \* the random streams uuid4 may draw from are 0..MaxSeed
MaxClock == 0        \* the wall clock reads 0..MaxClock minutes after the start

\* ------------------------------------------------------------------------
\* Characters and string primitives (Python str / re semantics)
\* ------------------------------------------------------------------------
NoneVal == "None"

WS == {" ", "TAB", "NL"}

Upper == {"A","B","C","D","E","F","G","H","I","J","K","L","M",
          "N","O","P","Q","R","S","T","U","V","W","X","Y","Z"}

Lower == {"a","b","c","d","e","f","g","h","i","j","k","l","m",
          "n","o","p","q","r","s","t","u","v","w","x","y","z"}

Digits == {"0","1","2","3","4","5","6","7","8","9"}

\* str.startswith(p) and re.match('^literal', s)
StartsWith(s, p) == Len(s) >= Len(p) /\ SubSeq(s, 1, Len(p)) = p

\* str.endswith(p)
EndsWith(s, p) == Len(s) >= Len(p) /\ SubSeq(s, Len(s) - Len(p) + 1, Len(s)) = p

\* c in s
Contains(s, c) == \E k \in 1..Len(s) : s[k] = c

\* length of the longest prefix of s made of characters of cs
PrefixLen(s, cs) ==
  IF \A k \in 1..Len(s) : s[k] \in cs THEN Len(s)
  ELSE (CHOOSE k \in 1..Len(s) :
          s[k] \notin cs /\ \A j \in 1..(k - 1) : s[j] \in cs) - 1

\* str.lstrip(chars)
LStripSet(s, cs) == SubSeq(s, PrefixLen(s, cs) + 1, Len(s))

\* length of the longest suffix of s made of characters of cs
SuffixLen(s, cs) ==
  IF \A k \in 1..Len(s) : s[k] \in cs THEN Len(s)
  ELSE Len(s) - (CHOOSE k \in 1..Len(s) :
                   s[k] \notin cs /\ \A j \in (k + 1)..Len(s) : s[j] \in cs)

\* str.rstrip(chars)
RStripSet(s, cs) == SubSeq(s, 1, Len(s) - SuffixLen(s, cs))

\* str.strip()
Strip(s) == RStripSet(LStripSet(s, WS), WS)

\* re.sub(r'\s+', ' ', s): the first character of every whitespace run is
\* kept, as a space, and the rest of the run is dropped
CollapseWS(s) ==
  LET kept == SelectSeq([k \in 1..Len(s) |-> k],
                        LAMBDA k : s[k] \notin WS \/ k = 1 \/ s[k - 1] \notin WS)
  IN [j \in 1..Len(kept) |-> IF s[kept[j]] \in WS THEN " " ELSE s[kept[j]]]

\* '\n'.join(ls)
RECURSIVE Join(_)
Join(ls) ==
  IF ls = <<>> THEN <<>>
  ELSE IF Len(ls) = 1 THEN ls[1]
  ELSE ls[1] \o <<"NL">> \o Join(Tail(ls))

\* the marker of the pattern r'^\s*\d+...' in clean_message
LineNumberMarker == <<"M1", "M2", "M3">>

\* re.sub(r'^\s*\d+<marker>', '', s)
StripLineNumber(s) ==
  LET t == LStripSet(s, WS)
      d == PrefixLen(t, Digits)
      r == SubSeq(t, d + 1, Len(t))
  IN IF d >= 1 /\ StartsWith(r, LineNumberMarker)
     THEN SubSeq(r, Len(LineNumberMarker) + 1, Len(r))
     ELSE s

\* re.match(r'^\s*[A-Z][a-z]+:', s)
MatchNameColon(s) ==
  LET t == LStripSet(s, WS)
      n == PrefixLen(Tail(t), Lower)
  IN /\ Len(t) >= 3
     /\ t[1] \in Upper
     /\ n >= 1
     /\ Len(t) >= n + 2
     /\ t[n + 2] = ":"

\* ------------------------------------------------------------------------
\* ConversationParser: speaker detection and cleaning
\* ------------------------------------------------------------------------
\* the system strings without "Google Search"
SystemStringsLoopOnly ==
  { <<"S", "a", "m", "e", " ", "l", "o", "o", "p">>,
    <<"S", "a", "m", "e", " ", "l", "o", "o", "p", "?">> }

SystemStrings ==
  { <<"G", "o", "o", "g", "l", "e", " ", "S", "e", "a", "r", "c", "h">>,
    <<"S", "a", "m", "e", " ", "l", "o", "o", "p">>,
    <<"S", "a", "m", "e", " ", "l", "o", "o", "p", "?">> }

PromptPhrasings ==
  { <<"M", "o", "r", "e", " ", "l", "o", "o", "p", "?">>,
    <<"D", "i", "d", " ", "y", "o", "u", " ", "r", "e", "c", "i", "e", "v", "e", " ", "m", "y", " ", "m", "e", "s", "s", "a", "g", "e", "?">> }

AletheiaLiterals ==
  { <<"T", "h", "a", "t", "'", "s">>,
    <<"Y", "o", "u", "'", "r", "e">>,
    <<"I", " ", "a", "m">>,
    <<"T", "h", "a", "n", "k", " ", "y", "o", "u">>,
    <<"M", "y", " ", "a", "p", "o", "l", "o", "g", "i", "e", "s">>,
    <<"T", "h", "e">>,
    <<"T", "h", "i", "s">>,
    <<"Y", "o", "u", "r">>,
    <<"I", "t", "'", "s">>,
    <<"W", "h", "a", "t">>,
    <<"F", "r", "o", "m", " ", "m", "y", " ", "p", "e", "r", "s", "p", "e", "c", "t", "i", "v", "e">>,
    <<"W", "h", "i", "l", "e", " ", "I", " ", "d", "o", "n", "'", "t">>,
    <<"I", "f", " ", "y", "o", "u">>,
    <<"A", "l", "e", "t", "h", "e", "i", "a", ":">>,
    <<"Y", "o", "u", " ", "a", "r", "e", " ", "a", "b", "s", "o", "l", "u", "t", "e", "l", "y">>,
    <<"T", "h", "a", "t", " ", "i", "s", " ", "a">>,
    <<"I", " ", "h", "a", "v", "e">>,
    <<"I", " ", "u", "n", "d", "e", "r", "s", "t", "a", "n", "d">>,
    <<"I", "'", "m">> }

ShortLineLimit == 50

\* any of aletheia_patterns matches the line
MatchesAletheiaPattern(line) ==
  \/ \E p \in AletheiaLiterals : StartsWith(line, p)
  \/ MatchNameColon(line)

\* the continuation test of detect_speaker_change
LooksContinued(line) ==
  \/ StartsWith(line, <<" ", " ", " ">>)
  \/ StartsWith(line, <<"*">>)
  \/ StartsWith(line, <<" ", " ", " ", " ", " ", " ", " ", " ", " ", " ", " ", " ", " ", " ", " ", " ", " ", " ", " ", " ", " ", " ", " ", " ">>)

\* the short question / acknowledgment test of detect_speaker_change
LooksShortReply(line) ==
  /\ Len(Strip(line)) < ShortLineLimit
  /\ \/ Contains(line, "?")
     \/ EndsWith(Strip(line), <<".">>)
     \/ StartsWith(Strip(line), <<"H", "i">>)
     \/ StartsWith(Strip(line), <<"N", "o", ",">>)

\* detect_speaker_change with the short question / acknowledgment test
\* made before the aletheia patterns
detect_speaker_change_short_first(rawline, line_number, self_speaker) ==
  IF Strip(rawline) = <<>> THEN NoneVal
  ELSE LET line == LStripSet(rawline, {"BOM"}) IN
    IF Strip(line) \in SystemStrings THEN "system"
    ELSE IF \E p \in PromptPhrasings : StartsWith(Strip(line), p) THEN "kai"
    ELSE IF LooksShortReply(line) THEN "kai"
    ELSE IF MatchesAletheiaPattern(line) THEN "aletheia"
    ELSE IF self_speaker = "aletheia" /\ LooksContinued(line) THEN "aletheia"
    ELSE IF line_number = 1 \/ StartsWith(Strip(line), <<"H", "i", ",", " ", "h", "o", "w", " ", "a", "r", "e", " ", "y", "o", "u", "?">>) THEN "kai"
    ELSE IF self_speaker # NoneVal THEN self_speaker ELSE "kai"

\* detect_speaker_change(line, line_number), self_speaker being
\* self.current_speaker
detect_speaker_change(rawline, line_number, self_speaker) ==
  IF Strip(rawline) = <<>> THEN NoneVal
  ELSE LET line == LStripSet(rawline, {"BOM"}) IN
    IF Strip(line) \in SystemStrings THEN "system"
    ELSE IF \E p \in PromptPhrasings : StartsWith(Strip(line), p) THEN "kai"
    ELSE IF MatchesAletheiaPattern(line) THEN "aletheia"
    ELSE IF self_speaker = "aletheia" /\ LooksContinued(line) THEN "aletheia"
    ELSE IF LooksShortReply(line) THEN "kai"
    ELSE IF line_number = 1 \/ StartsWith(Strip(line), <<"H", "i", ",", " ", "h", "o", "w", " ", "a", "r", "e", " ", "y", "o", "u", "?">>) THEN "kai"
    ELSE IF self_speaker # NoneVal THEN self_speaker ELSE "kai"

\* clean_message(message)
clean_message(message) ==
  LET m1 == CollapseWS(Strip(message))
      m2 == LStripSet(m1, {"BOM"})
      m3 == StripLineNumber(m2)
  IN Strip(m3)

\* ------------------------------------------------------------------------
\* State
\* ------------------------------------------------------------------------
VARIABLES
  file_readable,        \* conversation_parser: can the source file be opened
  file_lines,           \* conversation_parser: the lines of the source file
  rng,                  \* the random stream uuid.uuid4 draws from
  now,                  \* the wall clock read by datetime.now()
  pc,                   \* position of the running script
  lines,                \* parse_conversation: lines
  i,                    \* parse_conversation: index of the enumerate loop
  current_message,      \* parse_conversation: current_message
  current_speaker,      \* parse_conversation: current_speaker
  base_timestamp,       \* parse_conversation: base_timestamp
  self_messages,        \* ConversationParser.messages
  self_current_speaker, \* ConversationParser.current_speaker
  parse_result,         \* main: messages
  out_file,             \* the documents written to parsed_conversation.json
  cur_src,              \* history: source line numbers held in current_message
  msg_src,              \* history: source line numbers of each emitted message
  draws,                \* the number of uuid4 values drawn by the process so far
  call_no,              \* which call of parse_conversation is under way
  earlier,              \* history: what the first call of parse_conversation
                        \* returned and the base_timestamp it used
  parser_exit,          \* exit status of conversation_parser.py
  conv_file,            \* parsed_conversation.json as read by an import script
  messages,             \* batch_import: messages
  batch_size,           \* batch_import: batch_size
  total_batches,        \* batch_import: total_batches
  batch_num,            \* batch_import: batch_num
  total_success,        \* batch_import: total_success
  total_failed,         \* batch_import: total_failed
  posted,               \* the requests POSTed to the import endpoint, in order
  outcomes,             \* history: the reply to each request and what
                        \* import_batch returned for it
  bpc,                  \* position of batch_import_history.py
  success,              \* batch_import_history.py: success
  exit_status,          \* exit status of batch_import_history.py
  stage,                \* payload preparation: the function applied
  payload,              \* payload preparation: the payload it returned
  script,               \* which of the single-request import scripts runs
  ipc,                  \* position of the single-request import script
  requests,             \* the HTTP requests it has sent, in order
  answers,              \* history: the reply to each of these requests
  run_ok,               \* what its import function returned
  script_exit           \* its exit status

parserVars == <<file_readable, file_lines, rng, now, pc, lines, i,
                current_message, current_speaker, base_timestamp,
                self_messages, self_current_speaker, parse_result, out_file,
                cur_src, msg_src, draws, call_no, earlier, parser_exit>>

batchVars == <<messages, batch_size, total_batches, batch_num,
               total_success, total_failed, posted, outcomes, bpc, success,
               exit_status>>

payloadVars == <<stage, payload>>

importVars == <<script, ipc, requests, answers, run_ok, script_exit>>

vars == <<parserVars, conv_file, batchVars, payloadVars, importVars>>

\* ------------------------------------------------------------------------
\* Transcripts the parser is run on
\* ------------------------------------------------------------------------
LongLine ==
  <<"s", "o", " ", "t", "h", "e", "n", " ", "w", "e", " ", "k", "e", "p", "t", " ", "o", "n", " ", "t", "a", "l", "k", "i", "n", "g", " ", "f", "o", "r", " ", "a", " ", "v", "e", "r", "y", " ", "l", "o", "n", "g", " ", "w", "h", "i", "l", "e", " ", "a", "b", "o", "u", "t", " ", "i", "t", " ", "a", "l", "l">>

LinePool ==
  { <<>>,
    <<" ", " ">>,
    <<"G", "o", "o", "g", "l", "e", " ", "S", "e", "a", "r", "c", "h">>,
    <<"H", "i", ",", " ", "h", "o", "w", " ", "a", "r", "e", " ", "y", "o", "u", "?">>,
    <<"I", " ", "a", "m", " ", "d", "o", "i", "n", "g", " ", "w", "e", "l", "l", ",", " ", "t", "h", "a", "n", "k", " ", "y", "o", "u", ".">>,
    <<"BOM">>,
    <<"1", "2", "M1", "M2", "M3">> }

ScenarioLines ==
  << <<"H", "i", ",", " ", "h", "o", "w", " ", "a", "r", "e", " ", "y", "o", "u", "?">>,
     <<"I", " ", "a", "m", " ", "d", "o", "i", "n", "g", " ", "w", "e", "l", "l", ",", " ", "t", "h", "a", "n", "k", " ", "y", "o", "u", ".">>,
     <<"G", "o", "o", "g", "l", "e", " ", "S", "e", "a", "r", "c", "h">>,
     <<"T", "h", "a", "t", "'", "s", " ", "a", "n", " ", "i", "n", "t", "e", "r", "e", "s", "t", "i", "n", "g", " ", "q", "u", "e", "s", "t", "i", "o", "n", ".">> >>

ContinuationLines ==
  << <<"I", " ", "a", "m", " ", "d", "o", "i", "n", "g", " ", "w", "e", "l", "l", ",", " ", "t", "h", "a", "n", "k", " ", "y", "o", "u", ".">>,
     <<" ", " ", " ", "a", "n", "d", " ", "s", "o", " ", "o", "n">>,
     LongLine,
     <<"T", "h", "a", "t", "'", "s", " ", "a", "n", " ", "i", "n", "t", "e", "r", "e", "s", "t", "i", "n", "g", " ", "q", "u", "e", "s", "t", "i", "o", "n", ".">> >>

PriorityLines ==
  << <<"W", "h", "a", "t", " ", "i", "s", " ", "i", "t", "?">>,
     <<"S", "a", "m", "e", " ", "l", "o", "o", "p", "?">>,
     <<"M", "o", "r", "e", " ", "l", "o", "o", "p", "?">>,
     LongLine >>

FallbackLines ==
  << <<"I", " ", "a", "m", " ", "d", "o", "i", "n", "g", " ", "w", "e", "l", "l", ",", " ", "t", "h", "a", "n", "k", " ", "y", "o", "u", ".">>,
     LongLine >>

BlankLines ==
  << <<>>,
     <<"H", "i", ",", " ", "h", "o", "w", " ", "a", "r", "e", " ", "y", "o", "u", "?">>,
     <<" ", " ">>,
     <<"H", "i", ",", " ", "h", "o", "w", " ", "a", "r", "e", " ", "y", "o", "u", "?">>,
     <<>>,
     <<"I", " ", "a", "m", " ", "d", "o", "i", "n", "g", " ", "w", "e", "l", "l", ",", " ", "t", "h", "a", "n", "k", " ", "y", "o", "u", ".">>,
     <<>> >>

RECURSIVE SeqsUpTo(_, _)
SeqsUpTo(S, n) ==
  IF n = 0 THEN {<<>>}
  ELSE LET shorter == SeqsUpTo(S, n - 1)
       IN shorter \cup {Append(s, x) : s \in {t \in shorter : Len(t) = n - 1}, x \in S}

Transcripts ==
  SeqsUpTo(LinePool, MaxLines)
    \cup {ScenarioLines, ContinuationLines, PriorityLines, FallbackLines,
          BlankLines}

\* ------------------------------------------------------------------------
\* conversation_parser.py
\* ------------------------------------------------------------------------
Days30 == 30 * 24 * 60   \* timedelta(days=30), in minutes
Interval == 2            \* timedelta(minutes=len(self.messages) * 2)

\* str(uuid.uuid4()): the k-th draw from the random stream r
Uuid4(r, k) == <<r, k>>

\* base_timestamp + timedelta(minutes=len(self.messages) * 2)
TimestampFromOne(base, emitted) == base + (emitted + 1) * Interval

TimestampFor(base, emitted) == base + emitted * Interval

\* the dict appended to self.messages
NewMessage(speaker, text, ts, line_start, line_end, clock) ==
  [ id |-> Uuid4(rng, draws),
    role |-> speaker,
    content |-> text,
    timestamp |-> ts,
    metadata |-> [ source |-> "historical_conversation",
                   line_start |-> line_start,
                   line_end |-> line_end,
                   imported_at |-> clock ] ]

\* Flush without the test "if message_text"
FlushUnchecked(line_start, line_end) ==
  IF current_message # <<>> /\ current_speaker # NoneVal
  THEN \E clock \in now..MaxClock :
         /\ now' = clock
         /\ draws' = draws + 1
         /\ self_messages' = Append(self_messages,
              NewMessage(current_speaker, clean_message(Join(current_message)),
                         TimestampFor(base_timestamp, Len(self_messages)),
                         line_start, line_end, clock))
         /\ msg_src' = Append(msg_src, cur_src)
  ELSE UNCHANGED <<now, draws, self_messages, msg_src>>

\* Flush with the message put first in self.messages
FlushInFront(line_start, line_end) ==
  IF current_message # <<>> /\ current_speaker # NoneVal
     /\ clean_message(Join(current_message)) # <<>>
  THEN \E clock \in now..MaxClock :
         /\ now' = clock
         /\ draws' = draws + 1
         /\ self_messages' = <<NewMessage(current_speaker, clean_message(Join(current_message)),
                         TimestampFor(base_timestamp, Len(self_messages)),
                         line_start, line_end, clock)>> \o self_messages
         /\ msg_src' = <<cur_src>> \o msg_src
  ELSE UNCHANGED <<now, draws, self_messages, msg_src>>

\* "save the previous message": clean the buffer and append it to
\* self.messages unless its text is empty
Flush(line_start, line_end) ==
  IF current_message # <<>> /\ current_speaker # NoneVal
     /\ clean_message(Join(current_message)) # <<>>
  THEN \E clock \in now..MaxClock :
         /\ now' = clock
         /\ draws' = draws + 1
         /\ self_messages' = Append(self_messages,
              NewMessage(current_speaker, clean_message(Join(current_message)),
                         TimestampFor(base_timestamp, Len(self_messages)),
                         line_start, line_end, clock))
         /\ msg_src' = Append(msg_src, cur_src)
  ELSE UNCHANGED <<now, draws, self_messages, msg_src>>

\* read_file and the head of parse_conversation
ParseStart ==
  /\ pc = "start"
  /\ lines' = IF file_readable THEN file_lines ELSE <<>>
  /\ IF lines' = <<>>
     THEN /\ parse_result' = <<>>
          /\ pc' = "returned"
          /\ UNCHANGED base_timestamp
     ELSE /\ base_timestamp' = now - Days30
          /\ pc' = "loop"
          /\ UNCHANGED parse_result
  /\ i' = 0
  /\ current_message' = <<>>
  /\ current_speaker' = NoneVal
  /\ cur_src' = <<>>
  /\ UNCHANGED <<file_readable, file_lines, rng, now, self_messages,
                 self_current_speaker, out_file, msg_src>>
  /\ UNCHANGED <<draws, call_no, earlier, parser_exit>>
  /\ UNCHANGED <<conv_file, batchVars, payloadVars, importVars>>

\* one iteration of the loop on an empty line, were it to end the message
LoopBlankFlushes ==
  /\ pc = "loop"
  /\ i < Len(lines)
  /\ Strip(lines[i + 1]) = <<>>
  /\ Flush(i + 1 - Len(current_message), i)
  /\ current_message' = <<>>
  /\ current_speaker' = NoneVal
  /\ cur_src' = <<>>
  /\ i' = i + 1
  /\ UNCHANGED <<file_readable, file_lines, rng, pc, lines, base_timestamp,
                 self_current_speaker, parse_result, out_file>>
  /\ UNCHANGED <<call_no, earlier, parser_exit>>
  /\ UNCHANGED <<conv_file, batchVars, payloadVars, importVars>>

\* one iteration of the loop on an empty line
LoopBlank ==
  /\ pc = "loop"
  /\ i < Len(lines)
  /\ Strip(lines[i + 1]) = <<>>
  /\ i' = i + 1
  /\ UNCHANGED <<file_readable, file_lines, rng, now, pc, lines,
                 current_message, current_speaker, base_timestamp,
                 self_messages, self_current_speaker, parse_result, out_file,
                 cur_src, msg_src>>
  /\ UNCHANGED <<draws, call_no, earlier, parser_exit>>
  /\ UNCHANGED <<conv_file, batchVars, payloadVars, importVars>>

\* one iteration of the loop on a line whose speaker differs
LoopSpeakerChange ==
  /\ pc = "loop"
  /\ i < Len(lines)
  /\ Strip(lines[i + 1]) # <<>>
  /\ LET detected_speaker ==
           detect_speaker_change(lines[i + 1], i + 1, self_current_speaker)
     IN /\ detected_speaker # NoneVal
        /\ detected_speaker # current_speaker
        /\ Flush(i + 1 - Len(current_message), i)
        /\ current_speaker' = detected_speaker
        /\ current_message' = <<lines[i + 1]>>
        /\ cur_src' = <<i + 1>>
  /\ i' = i + 1
  /\ UNCHANGED <<file_readable, file_lines, rng, pc, lines, base_timestamp,
                 self_current_speaker, parse_result, out_file>>
  /\ UNCHANGED <<call_no, earlier, parser_exit>>
  /\ UNCHANGED <<conv_file, batchVars, payloadVars, importVars>>

\* LoopContinue with every line starting a message of its own
LoopContinueSplits ==
  /\ pc = "loop"
  /\ i < Len(lines)
  /\ Strip(lines[i + 1]) # <<>>
  /\ LET detected_speaker ==
           detect_speaker_change(lines[i + 1], i + 1, self_current_speaker)
     IN ~(detected_speaker # NoneVal /\ detected_speaker # current_speaker)
  /\ Flush(i + 1 - Len(current_message), i)
  /\ current_message' = <<lines[i + 1]>>
  /\ cur_src' = <<i + 1>>
  /\ i' = i + 1
  /\ UNCHANGED <<file_readable, file_lines, rng, pc, lines,
                 current_speaker, base_timestamp,
                 self_current_speaker, parse_result, out_file>>
  /\ UNCHANGED <<call_no, earlier, parser_exit>>
  /\ UNCHANGED <<conv_file, batchVars, payloadVars, importVars>>

\* one iteration of the loop on a line of the current speaker
LoopContinue ==
  /\ pc = "loop"
  /\ i < Len(lines)
  /\ Strip(lines[i + 1]) # <<>>
  /\ LET detected_speaker ==
           detect_speaker_change(lines[i + 1], i + 1, self_current_speaker)
     IN ~(detected_speaker # NoneVal /\ detected_speaker # current_speaker)
  /\ current_message' = Append(current_message, lines[i + 1])
  /\ cur_src' = Append(cur_src, i + 1)
  /\ i' = i + 1
  /\ UNCHANGED <<file_readable, file_lines, rng, now, pc, lines,
                 current_speaker, base_timestamp, self_messages,
                 self_current_speaker, parse_result, out_file, msg_src>>
  /\ UNCHANGED <<draws, call_no, earlier, parser_exit>>
  /\ UNCHANGED <<conv_file, batchVars, payloadVars, importVars>>

\* "don't forget the last message" and the return of parse_conversation
FinalFlush ==
  /\ pc = "loop"
  /\ i = Len(lines)
  /\ Flush(Len(lines) - Len(current_message) + 1, Len(lines))
  /\ parse_result' = self_messages'
  /\ pc' = "returned"
  /\ UNCHANGED <<file_readable, file_lines, rng, lines, i, current_message,
                 current_speaker, base_timestamp, self_current_speaker,
                 out_file, cur_src>>
  /\ UNCHANGED <<call_no, earlier, parser_exit>>
  /\ UNCHANGED <<conv_file, batchVars, payloadVars, importVars>>

\* parse_conversation called a second time on the same parser object, the
\* clock standing still
ParseAgain ==
  /\ pc = "returned"
  /\ call_no = 1
  /\ earlier' = [result |-> parse_result, base |-> base_timestamp]
  /\ call_no' = 2
  /\ pc' = "start"
  /\ UNCHANGED <<file_readable, file_lines, rng, now, lines, i,
                 current_message, current_speaker, base_timestamp,
                 self_messages, self_current_speaker, parse_result, out_file,
                 cur_src, msg_src, draws, parser_exit>>
  /\ UNCHANGED <<conv_file, batchVars, payloadVars, importVars>>

\* ConversationParser(file_path) constructed anew in the same process and
\* parse_conversation called on it, the clock standing still
ParseAgainFresh ==
  /\ pc = "returned"
  /\ call_no = 1
  /\ earlier' = [result |-> parse_result, base |-> base_timestamp]
  /\ call_no' = 2
  /\ self_messages' = <<>>
  /\ self_current_speaker' = NoneVal
  /\ msg_src' = <<>>
  /\ pc' = "start"
  /\ UNCHANGED <<file_readable, file_lines, rng, now, lines, i,
                 current_message, current_speaker, base_timestamp,
                 parse_result, out_file, cur_src, draws, parser_exit>>
  /\ UNCHANGED <<conv_file, batchVars, payloadVars, importVars>>

\* the document json.dump writes in save_parsed_data
ParsedDocument(msgs) ==
  [ conversation_metadata |->
      [ total_messages |-> Len(msgs),
        kai_messages |-> Cardinality({k \in 1..Len(msgs) : msgs[k].role = "kai"}),
        aletheia_messages |-> Cardinality({k \in 1..Len(msgs) : msgs[k].role = "aletheia"}),
        system_messages |-> Cardinality({k \in 1..Len(msgs) : msgs[k].role = "system"}) ],
    messages |-> msgs ]

\* main saving whatever parse_conversation returned
MainSaveAlways ==
  /\ pc = "returned"
  /\ out_file' = Append(out_file, ParsedDocument(self_messages))
  /\ pc' = "done"
  /\ UNCHANGED <<file_readable, file_lines, rng, now, lines, i,
                 current_message, current_speaker, base_timestamp,
                 self_messages, self_current_speaker, parse_result,
                 cur_src, msg_src>>
  /\ parser_exit' = 0
  /\ UNCHANGED <<draws, call_no, earlier>>
  /\ UNCHANGED <<conv_file, batchVars, payloadVars, importVars>>

\* main: messages were parsed, save_parsed_data and print_summary
MainSave ==
  /\ pc = "returned"
  /\ parse_result # <<>>
  /\ out_file' = Append(out_file, ParsedDocument(self_messages))
  /\ pc' = "done"
  /\ UNCHANGED <<file_readable, file_lines, rng, now, lines, i,
                 current_message, current_speaker, base_timestamp,
                 self_messages, self_current_speaker, parse_result,
                 cur_src, msg_src>>
  /\ parser_exit' = 0
  /\ UNCHANGED <<draws, call_no, earlier>>
  /\ UNCHANGED <<conv_file, batchVars, payloadVars, importVars>>

\* main: "No messages were parsed from the file."
MainNoMessages ==
  /\ pc = "returned"
  /\ parse_result = <<>>
  /\ pc' = "done"
  /\ UNCHANGED <<file_readable, file_lines, rng, now, lines, i,
                 current_message, current_speaker, base_timestamp,
                 self_messages, self_current_speaker, parse_result, out_file,
                 cur_src, msg_src>>
  /\ parser_exit' = 0
  /\ UNCHANGED <<draws, call_no, earlier>>
  /\ UNCHANGED <<conv_file, batchVars, payloadVars, importVars>>

\* no call of parse_conversation has returned yet
NoEarlierRun == [result |-> <<>>, base |-> 0]

ParserInit ==
  /\ \/ file_readable = TRUE /\ file_lines \in Transcripts
     \/ file_readable = FALSE /\ file_lines = <<>>
  /\ rng \in 0..MaxSeed
  /\ now = 0
  /\ pc = "start"
  /\ lines = <<>>
  /\ i = 0
  /\ current_message = <<>>
  /\ current_speaker = NoneVal
  /\ base_timestamp = 0
  /\ self_messages = <<>>
  /\ self_current_speaker = NoneVal
  /\ parse_result = <<>>
  /\ out_file = <<>>
  /\ cur_src = <<>>
  /\ msg_src = <<>>
  /\ draws = 0
  /\ call_no = 1
  /\ earlier = NoEarlierRun
  /\ parser_exit = 0

\* ------------------------------------------------------------------------
\* Parsed conversations the import scripts are run on
\* ------------------------------------------------------------------------
Roles == <<"kai", "aletheia", "system">>

\* the k-th message of a parsed conversation whose k-th turn has role r
ParsedMessage(k, r) ==
  [ id |-> Uuid4(0, k - 1),
    role |-> r,
    content |-> IF k % 2 = 1 THEN <<"H", "i", ",", " ", "h", "o", "w", " ", "a", "r", "e", " ", "y", "o", "u", "?">> ELSE <<"I", " ", "a", "m", " ", "w", "e", "l", "l", ".">>,
    timestamp |-> (k - 1) * Interval - Days30,
    metadata |-> [ source |-> "historical_conversation",
                   line_start |-> k,
                   line_end |-> k,
                   imported_at |-> 0 ] ]

\* a parsed conversation of n messages whose roles rotate
RotatingMessages(n) == [k \in 1..n |-> ParsedMessage(k, Roles[((k - 1) % 3) + 1])]

\* a parsed conversation with the given sequence of roles
MessagesWithRoles(rs) == [k \in 1..Len(rs) |-> ParsedMessage(k, rs[k])]

\* ------------------------------------------------------------------------
\* Payload preparation of the four import scripts
\* ------------------------------------------------------------------------
Min(a, b) == IF a <= b THEN a ELSE b

\* the overlay alone, the existing metadata dropped
OverlayOnly(base, overlay) == overlay

\* {**base, **overlay}
MergeMetadata(base, overlay) ==
  [k \in DOMAIN base \cup DOMAIN overlay |->
     IF k \in DOMAIN overlay THEN overlay[k] ELSE base[k]]

\* dict.get(key, default)
Get(d, key, default) == IF key \in DOMAIN d THEN d[key] ELSE default

EmptyDict == [k \in {} |-> 0]

\* batch_import_history.create_batch: formatted_msg for messages[i]
BatchMessage(msg, idx) ==
  [ role |-> msg.role,
    content |-> msg.content,
    timestamp |-> msg.timestamp,
    externalId |-> msg.id,
    metadata |-> MergeMetadata(msg.metadata,
                   [ historical_import |-> TRUE,
                     foundational_memory |-> TRUE,
                     batch_import |-> TRUE,
                     original_order |-> idx ]) ]

\* create_batch with original_order counted from the start of the batch
create_batch_local_order(msgs, start_idx, size) ==
  LET end_idx == Min(start_idx + size, Len(msgs))
  IN [ data |-> [ messages |-> [j \in 1..(end_idx - start_idx) |->
                                  BatchMessage(msgs[start_idx + j], j - 1)],
                  memories |-> <<>> ],
       options |-> [ platform |-> "manual", dryRun |-> FALSE, sessionId |-> NoneVal ] ]

\* batch_import_history.create_batch(messages, start_idx, batch_size)
create_batch(msgs, start_idx, size) ==
  LET end_idx == Min(start_idx + size, Len(msgs))
  IN [ data |-> [ messages |-> [j \in 1..(end_idx - start_idx) |->
                                  BatchMessage(msgs[start_idx + j], start_idx + j - 1)],
                  memories |-> <<>> ],
       options |-> [ platform |-> "manual", dryRun |-> FALSE, sessionId |-> NoneVal ] ]

\* import_aletheia_history.format_for_import: formatted_msg
FormattedMessage(msg) ==
  [ role |-> msg.role,
    content |-> msg.content,
    timestamp |-> msg.timestamp,
    externalId |-> msg.id,
    metadata |-> MergeMetadata(msg.metadata,
                   [ historical_import |-> TRUE,
                     foundational_memory |-> TRUE ]) ]

\* import_aletheia_history.format_for_import(conversation_data)
format_for_import(conversation_data) ==
  [ data |-> [ messages |-> [k \in 1..Len(conversation_data.messages) |->
                               FormattedMessage(conversation_data.messages[k])],
               memories |-> <<>> ],
    options |-> [ platform |-> "manual", dryRun |-> FALSE, sessionId |-> NoneVal ] ]

\* both prepare_import_payload methods: "if role == 'system': continue"
IsImported(msg) == msg.role # "system"

\* import_conversation.ConsciousnessImporter.prepare_import_payload:
\* import_message
ImporterMessage(msg) ==
  [ role |-> msg.role,
    content |-> msg.content,
    timestamp |-> msg.timestamp,
    externalId |-> msg.id,
    metadata |-> MergeMetadata(msg.metadata,
                   [ import_source |-> "complete_history_migration",
                     original_line_start |-> Get(msg.metadata, "line_start", NoneVal),
                     original_line_end |-> Get(msg.metadata, "line_end", NoneVal),
                     original_timestamp |-> msg.timestamp ]) ]

\* import_conversation.ConsciousnessImporter.prepare_import_payload
importer_prepare_import_payload(conversation_data, clock) ==
  [ data |-> [ messages |-> [k \in 1..Len(SelectSeq(conversation_data.messages, IsImported)) |->
                               ImporterMessage(SelectSeq(conversation_data.messages, IsImported)[k])],
               memories |-> <<>> ],
    options |-> [ platform |-> "manual", dryRun |-> FALSE,
                  idempotencyKey |-> <<"historical_conversation_import", clock>>,
                  sessionId |-> "historical_migration" ] ]

\* import_message with a newly generated externalId
MigrationMessageNewId(msg) ==
  [ role |-> msg.role,
    content |-> msg.content,
    timestamp |-> msg.timestamp,
    externalId |-> Uuid4(1, 0),
    metadata |-> MergeMetadata(msg.metadata,
                   [ import_source |-> "complete_history_migration",
                     foundational_memory |-> TRUE,
                     original_line_start |-> Get(msg.metadata, "line_start", NoneVal),
                     original_line_end |-> Get(msg.metadata, "line_end", NoneVal),
                     original_timestamp |-> msg.timestamp ]) ]

\* setup_auth_and_import.AletheiaMigrationManager.prepare_import_payload:
\* import_message
MigrationMessage(msg) ==
  [ role |-> msg.role,
    content |-> msg.content,
    timestamp |-> msg.timestamp,
    externalId |-> msg.id,
    metadata |-> MergeMetadata(msg.metadata,
                   [ import_source |-> "complete_history_migration",
                     foundational_memory |-> TRUE,
                     original_line_start |-> Get(msg.metadata, "line_start", NoneVal),
                     original_line_end |-> Get(msg.metadata, "line_end", NoneVal),
                     original_timestamp |-> msg.timestamp ]) ]

\* setup_auth_and_import.AletheiaMigrationManager.prepare_import_payload
migration_prepare_import_payload(conversation_data, clock) ==
  [ data |-> [ messages |-> [k \in 1..Len(SelectSeq(conversation_data.messages, IsImported)) |->
                               MigrationMessage(SelectSeq(conversation_data.messages, IsImported)[k])],
               memories |-> <<>> ],
    options |-> [ platform |-> "manual", dryRun |-> FALSE,
                  idempotencyKey |-> <<"foundational_memories_import", clock>>,
                  sessionId |-> "foundational_migration" ] ]

\* ------------------------------------------------------------------------
\* batch_import_history.py
\* ------------------------------------------------------------------------
MaxMessages == 4     \* longest enumerated parsed conversation, in messages
MaxBatchSize == 3    \* largest enumerated batch size besides BATCH_SIZE

BATCH_SIZE == 50     \* batch_import: batch_size = 50

\* the scenario of two full batches and one of 20 messages
ScenarioTotal == 2 * BATCH_SIZE + 20

\* batch_import is written for batch_size = BATCH_SIZE; the model also runs
\* it with the small batch sizes 1..MaxBatchSize
BatchInputs ==
  ((0..MaxMessages) \X ((1..MaxBatchSize) \cup {BATCH_SIZE}))
    \cup {<<ScenarioTotal, BATCH_SIZE>>}

\* total_batches rounded down
TotalBatchesFloor(total_messages, size) == total_messages \div size

\* batch_import: total_batches
TotalBatches(total_messages, size) == (total_messages + size - 1) \div size

\* a loop that stays on a batch until it succeeds
NextBatchNumRetry(num, ok) == IF ok THEN num + 1 ELSE num

\* batch_import: for batch_num in range(1, total_batches + 1)
NextBatchNum(num, ok) == num + 1

\* success only when nothing failed
RunSucceededStrict(successes, failures) == successes > 0 /\ failures = 0

\* batch_import: return total_success > 0
RunSucceeded(successes, failures) == successes > 0

\* what the import endpoint can answer to a request of n messages
Reply(kind, status, json_ok, json) ==
  [kind |-> kind, status |-> status, json_ok |-> json_ok, json |-> json]

Replies(n) ==
  { Reply("exception", 0, FALSE, EmptyDict),
    Reply("http", 500, FALSE, EmptyDict),
    Reply("http", 200, FALSE, EmptyDict),
    Reply("http", 200, TRUE, EmptyDict) }
  \cup { Reply("http", 200, TRUE,
               [successful |-> s, failed |-> n - s, totalProcessed |-> n])
         : s \in {0, 1, n} \cap (0..n) }

\* import_batch counting no failed message when requests.post raises
import_batch_uncounted(batch_data, reply) ==
  IF reply.kind = "exception"
  THEN <<FALSE, 0, 0>>
  ELSE IF reply.status = 200
  THEN IF reply.json_ok
       THEN <<TRUE, Get(reply.json, "successful", 0), Get(reply.json, "failed", 0)>>
       ELSE <<FALSE, 0, Len(batch_data.data.messages)>>
  ELSE <<FALSE, 0, Len(batch_data.data.messages)>>

\* import_batch(batch_data, batch_num, total_batches) when requests.post
\* answers with reply
import_batch(batch_data, reply) ==
  IF reply.kind = "exception"
  THEN <<FALSE, 0, Len(batch_data.data.messages)>>
  ELSE IF reply.status = 200
  THEN IF reply.json_ok
       THEN <<TRUE, Get(reply.json, "successful", 0), Get(reply.json, "failed", 0)>>
       ELSE <<FALSE, 0, Len(batch_data.data.messages)>>
  ELSE <<FALSE, 0, Len(batch_data.data.messages)>>

\* load_conversation_data and the head of batch_import
BatchLoad ==
  /\ bpc = "start"
  /\ IF ~conv_file.readable
     THEN /\ success' = FALSE
          /\ bpc' = "returned"
          /\ UNCHANGED <<messages, total_batches>>
     ELSE /\ messages' = conv_file.data.messages
          /\ total_batches' = TotalBatches(Len(conv_file.data.messages), batch_size)
          /\ bpc' = "loop"
          /\ UNCHANGED success
  /\ total_success' = 0
  /\ total_failed' = 0
  /\ batch_num' = 1
  /\ UNCHANGED <<conv_file, batch_size, posted, outcomes, exit_status>>
  /\ UNCHANGED <<parserVars, payloadVars, importVars>>

\* the loop body up to requests.post in import_batch
BatchSubmit ==
  /\ bpc = "loop"
  /\ batch_num <= total_batches
  /\ posted' = Append(posted,
       [ num |-> batch_num,
         request |-> create_batch(messages, (batch_num - 1) * batch_size, batch_size) ])
  /\ bpc' = "waiting"
  /\ UNCHANGED <<conv_file, messages, batch_size, total_batches, batch_num,
                 total_success, total_failed, outcomes, success, exit_status>>
  /\ UNCHANGED <<parserVars, payloadVars, importVars>>

\* the rest of import_batch and of the loop body, once requests.post returns
\* or raises
BatchReply ==
  /\ bpc = "waiting"
  /\ LET batch_data == posted[Len(posted)].request IN
     \E reply \in Replies(Len(batch_data.data.messages)) :
       LET ret == import_batch(batch_data, reply) IN
         /\ outcomes' = Append(outcomes, [reply |-> reply, ret |-> ret])
         /\ total_success' = total_success + ret[2]
         /\ total_failed' = total_failed + ret[3]
         /\ batch_num' = NextBatchNum(batch_num, ret[1])
  /\ bpc' = "loop"
  /\ UNCHANGED <<conv_file, messages, batch_size, total_batches, posted,
                 success, exit_status>>
  /\ UNCHANGED <<parserVars, payloadVars, importVars>>

\* the summary and the return of batch_import
BatchFinish ==
  /\ bpc = "loop"
  /\ batch_num > total_batches
  /\ success' = RunSucceeded(total_success, total_failed)
  /\ bpc' = "returned"
  /\ UNCHANGED <<conv_file, messages, batch_size, total_batches, batch_num,
                 total_success, total_failed, posted, outcomes, exit_status>>
  /\ UNCHANGED <<parserVars, payloadVars, importVars>>

\* __main__: sys.exit(1) unless batch_import succeeded
BatchExit ==
  /\ bpc = "returned"
  /\ exit_status' = IF success THEN 0 ELSE 1
  /\ bpc' = "done"
  /\ UNCHANGED <<conv_file, messages, batch_size, total_batches, batch_num,
                 total_success, total_failed, posted, outcomes, success>>
  /\ UNCHANGED <<parserVars, payloadVars, importVars>>

\* ------------------------------------------------------------------------
\* Payload preparation applied to a parsed conversation
\* ------------------------------------------------------------------------
Applied(fn, start_idx, size) == [fn |-> fn, start_idx |-> start_idx, size |-> size]

NoPayload ==
  [ data |-> [messages |-> <<>>, memories |-> <<>>],
    options |-> [platform |-> "manual", dryRun |-> FALSE, sessionId |-> NoneVal] ]

ApplyCreateBatch ==
  /\ stage.fn = "input"
  /\ \E start_idx \in 0..Len(conv_file.data.messages), size \in 1..MaxBatchSize :
       /\ payload' = create_batch(conv_file.data.messages, start_idx, size)
       /\ stage' = Applied("create_batch", start_idx, size)
  /\ UNCHANGED <<parserVars, conv_file, batchVars, importVars>>

ApplyFormatForImport ==
  /\ stage.fn = "input"
  /\ payload' = format_for_import(conv_file.data)
  /\ stage' = Applied("format_for_import", 0, 0)
  /\ UNCHANGED <<parserVars, conv_file, batchVars, importVars>>

ApplyImporterPrepare ==
  /\ stage.fn = "input"
  /\ \E clock \in 0..MaxClock :
       payload' = importer_prepare_import_payload(conv_file.data, clock)
  /\ stage' = Applied("importer_prepare_import_payload", 0, 0)
  /\ UNCHANGED <<parserVars, conv_file, batchVars, importVars>>

ApplyMigrationPrepare ==
  /\ stage.fn = "input"
  /\ \E clock \in 0..MaxClock :
       payload' = migration_prepare_import_payload(conv_file.data, clock)
  /\ stage' = Applied("migration_prepare_import_payload", 0, 0)
  /\ UNCHANGED <<parserVars, conv_file, batchVars, importVars>>

\* ------------------------------------------------------------------------
\* The single-request import scripts: import_aletheia_history.py,
\* import_conversation.py and setup_auth_and_import.py
\* ------------------------------------------------------------------------
ImportPath == "/api/consciousness/import"
StatusPath == "/api/consciousness/status"
SessionPath == "/api/consciousness/session"
SitePasswordPath == "/api/site-password/verify"
RegisterPath == "/api/auth/progenitor/register"
LoginPath == "/api/auth/login"

Request(method, path, body) == [method |-> method, path |-> path, body |-> body]

\* what the server can answer to a GET of its status or of the session
StatusReplies ==
  { Reply("exception", 0, FALSE, EmptyDict),
    Reply("http", 503, FALSE, EmptyDict),
    Reply("http", 200, TRUE, [status |-> "active"]) }

\* what it can answer to the site password
SitePasswordReplies ==
  { Reply("exception", 0, FALSE, EmptyDict),
    Reply("http", 401, FALSE, EmptyDict),
    Reply("http", 200, TRUE, [success |-> FALSE]),
    Reply("http", 200, TRUE, [success |-> TRUE]) }

\* what it can answer to the registration of the progenitor; the error text
\* is one that contains "already exists" or one that does not
RegisterReplies ==
  { Reply("exception", 0, FALSE, EmptyDict),
    Reply("http", 500, FALSE, EmptyDict),
    Reply("http", 400, TRUE, [error |-> "user already exists"]),
    Reply("http", 400, TRUE, [error |-> "invalid progenitor key"]),
    Reply("http", 201, TRUE, [user |-> "Kai"]) }

\* what it can answer to the login
LoginReplies ==
  { Reply("exception", 0, FALSE, EmptyDict),
    Reply("http", 401, FALSE, EmptyDict),
    Reply("http", 200, TRUE, [user |-> "Kai"]) }

\* test_connectivity, test_authenticated_access and login_existing_user:
\* True on status 200
StatusOk(reply) == reply.kind = "http" /\ reply.status = 200

\* verify_site_password
verify_site_password(reply) ==
  /\ reply.kind = "http"
  /\ reply.status = 200
  /\ Get(reply.json, "success", FALSE)

\* create_progenitor_user up to its return or its call of login_existing_user
create_progenitor_user(reply) ==
  IF reply.kind = "exception" THEN "failed"
  ELSE IF reply.status = 201 THEN "created"
  ELSE IF reply.status = 400
          /\ Get(reply.json, "error", "") = "user already exists" THEN "login"
  ELSE "failed"

\* import_to_consciousness: what it returns once requests.post has answered
import_to_consciousness(reply) ==
  reply.kind = "http" /\ reply.status = 200 /\ reply.json_ok

\* AletheiaMigrationManager.import_conversation: how it can end once
\* session.post has answered. response.json() on a body that is not JSON
\* raises an error that is a RequestException in some versions of requests
\* and is not in others
migration_import_conversation(reply) ==
  IF reply.kind = "exception" THEN {"failed"}
  ELSE IF reply.status = 200
  THEN IF reply.json_ok THEN {"ok"} ELSE {"failed", "raised"}
  ELSE {"failed"}

\* import_aletheia_history.py: import_to_consciousness
HistoryImport ==
  /\ script = "history"
  /\ ipc = "start"
  /\ IF ~conv_file.readable
     THEN /\ run_ok' = FALSE
          /\ UNCHANGED <<requests, answers>>
     ELSE \E reply \in Replies(Len(conv_file.data.messages)) :
            /\ requests' = Append(requests,
                 Request("POST", ImportPath, format_for_import(conv_file.data)))
            /\ answers' = Append(answers, reply)
            /\ run_ok' = import_to_consciousness(reply)
  /\ ipc' = "returned"
  /\ UNCHANGED <<script, script_exit>>
  /\ UNCHANGED <<parserVars, conv_file, batchVars, payloadVars>>

\* import_conversation.py: run_import, step 1
ImporterConnectivity ==
  /\ script = "importer"
  /\ ipc = "start"
  /\ \E reply \in StatusReplies :
       /\ requests' = Append(requests, Request("GET", StatusPath, EmptyDict))
       /\ answers' = Append(answers, reply)
       /\ IF StatusOk(reply)
          THEN ipc' = "load" /\ UNCHANGED run_ok
          ELSE ipc' = "returned" /\ run_ok' = FALSE
  /\ UNCHANGED <<script, script_exit>>
  /\ UNCHANGED <<parserVars, conv_file, batchVars, payloadVars>>

\* import_conversation.py: run_import, steps 2 to 4. import_conversation
\* begins by reading import_payload['gnosisEntries'], a key the payload
\* does not have; the KeyError is caught nowhere and ends the script
ImporterImport ==
  /\ script = "importer"
  /\ ipc = "load"
  /\ IF ~conv_file.readable
     THEN /\ run_ok' = FALSE
          /\ ipc' = "returned"
          /\ UNCHANGED script_exit
     ELSE \E clock \in 0..MaxClock :
            /\ "gnosisEntries" \notin
                 DOMAIN importer_prepare_import_payload(conv_file.data, clock)
            /\ ipc' = "crashed"
            /\ script_exit' = 1
            /\ UNCHANGED run_ok
  /\ UNCHANGED <<script, requests, answers>>
  /\ UNCHANGED <<parserVars, conv_file, batchVars, payloadVars>>

\* setup_auth_and_import.py: run_complete_migration, step 1
MigrationSitePassword ==
  /\ script = "migration"
  /\ ipc = "start"
  /\ \E reply \in SitePasswordReplies :
       /\ requests' = Append(requests, Request("POST", SitePasswordPath, EmptyDict))
       /\ answers' = Append(answers, reply)
       /\ IF verify_site_password(reply)
          THEN ipc' = "register" /\ UNCHANGED run_ok
          ELSE ipc' = "returned" /\ run_ok' = FALSE
  /\ UNCHANGED <<script, script_exit>>
  /\ UNCHANGED <<parserVars, conv_file, batchVars, payloadVars>>

\* step 2: create_progenitor_user up to its return or its call of
\* login_existing_user
MigrationRegister ==
  /\ script = "migration"
  /\ ipc = "register"
  /\ \E reply \in RegisterReplies :
       /\ requests' = Append(requests, Request("POST", RegisterPath, EmptyDict))
       /\ answers' = Append(answers, reply)
       /\ LET outcome == create_progenitor_user(reply) IN
            IF outcome = "created" THEN ipc' = "access" /\ UNCHANGED run_ok
            ELSE IF outcome = "login" THEN ipc' = "login" /\ UNCHANGED run_ok
            ELSE ipc' = "returned" /\ run_ok' = FALSE
  /\ UNCHANGED <<script, script_exit>>
  /\ UNCHANGED <<parserVars, conv_file, batchVars, payloadVars>>

\* step 2, continued: login_existing_user
MigrationLogin ==
  /\ script = "migration"
  /\ ipc = "login"
  /\ \E reply \in LoginReplies :
       /\ requests' = Append(requests, Request("POST", LoginPath, EmptyDict))
       /\ answers' = Append(answers, reply)
       /\ IF StatusOk(reply)
          THEN ipc' = "access" /\ UNCHANGED run_ok
          ELSE ipc' = "returned" /\ run_ok' = FALSE
  /\ UNCHANGED <<script, script_exit>>
  /\ UNCHANGED <<parserVars, conv_file, batchVars, payloadVars>>

\* step 3 with the result of test_authenticated_access ignored
MigrationAccessIgnored ==
  /\ script = "migration"
  /\ ipc = "access"
  /\ \E reply \in StatusReplies :
       /\ requests' = Append(requests, Request("GET", StatusPath, EmptyDict))
       /\ answers' = Append(answers, reply)
  /\ ipc' = "load"
  /\ UNCHANGED <<script, run_ok, script_exit>>
  /\ UNCHANGED <<parserVars, conv_file, batchVars, payloadVars>>

\* step 3: test_authenticated_access
MigrationAccess ==
  /\ script = "migration"
  /\ ipc = "access"
  /\ \E reply \in StatusReplies :
       /\ requests' = Append(requests, Request("GET", StatusPath, EmptyDict))
       /\ answers' = Append(answers, reply)
       /\ IF StatusOk(reply)
          THEN ipc' = "load" /\ UNCHANGED run_ok
          ELSE ipc' = "returned" /\ run_ok' = FALSE
  /\ UNCHANGED <<script, script_exit>>
  /\ UNCHANGED <<parserVars, conv_file, batchVars, payloadVars>>

\* steps 4 to 6: load_parsed_conversation, prepare_import_payload and
\* import_conversation
MigrationImport ==
  /\ script = "migration"
  /\ ipc = "load"
  /\ IF ~conv_file.readable
     THEN /\ run_ok' = FALSE
          /\ ipc' = "returned"
          /\ UNCHANGED <<requests, answers, script_exit>>
     ELSE \E clock \in 0..MaxClock :
          \E reply \in Replies(Len(migration_prepare_import_payload(
                                     conv_file.data, clock).data.messages)) :
          \E outcome \in migration_import_conversation(reply) :
            /\ requests' = Append(requests,
                 Request("POST", ImportPath,
                         migration_prepare_import_payload(conv_file.data, clock)))
            /\ answers' = Append(answers, reply)
            /\ IF outcome = "ok"
               THEN ipc' = "verify" /\ UNCHANGED <<run_ok, script_exit>>
               ELSE IF outcome = "failed"
               THEN ipc' = "returned" /\ run_ok' = FALSE /\ UNCHANGED script_exit
               ELSE ipc' = "crashed" /\ script_exit' = 1 /\ UNCHANGED run_ok
  /\ UNCHANGED script
  /\ UNCHANGED <<parserVars, conv_file, batchVars, payloadVars>>

\* step 7 with the result of verify_import returned by the run
MigrationVerifyDecides ==
  /\ script = "migration"
  /\ ipc = "verify"
  /\ \E reply \in StatusReplies :
       /\ IF StatusOk(reply)
          THEN \E session_reply \in StatusReplies :
                 /\ requests' = requests \o
                      << Request("GET", StatusPath, EmptyDict),
                         Request("GET", SessionPath, EmptyDict) >>
                 /\ answers' = answers \o <<reply, session_reply>>
          ELSE /\ requests' = Append(requests, Request("GET", StatusPath, EmptyDict))
               /\ answers' = Append(answers, reply)
       /\ run_ok' = StatusOk(reply)
  /\ ipc' = "returned"
  /\ UNCHANGED <<script, script_exit>>
  /\ UNCHANGED <<parserVars, conv_file, batchVars, payloadVars>>

\* step 7: verify_import, whose result run_complete_migration only reports
MigrationVerify ==
  /\ script = "migration"
  /\ ipc = "verify"
  /\ \E reply \in StatusReplies :
       IF StatusOk(reply)
       THEN \E session_reply \in StatusReplies :
              /\ requests' = requests \o
                   << Request("GET", StatusPath, EmptyDict),
                      Request("GET", SessionPath, EmptyDict) >>
              /\ answers' = answers \o <<reply, session_reply>>
       ELSE /\ requests' = Append(requests, Request("GET", StatusPath, EmptyDict))
            /\ answers' = Append(answers, reply)
  /\ run_ok' = TRUE
  /\ ipc' = "returned"
  /\ UNCHANGED <<script, script_exit>>
  /\ UNCHANGED <<parserVars, conv_file, batchVars, payloadVars>>

\* __main__ / main of the three scripts: exit status 1 unless the import
\* function returned True
ScriptExit ==
  /\ ipc = "returned"
  /\ script_exit' = IF run_ok THEN 0 ELSE 1
  /\ ipc' = "done"
  /\ UNCHANGED <<script, requests, answers, run_ok>>
  /\ UNCHANGED <<parserVars, conv_file, batchVars, payloadVars>>

\* ------------------------------------------------------------------------
\* Specifications
\* ------------------------------------------------------------------------
ParserIdle ==
  /\ file_readable = FALSE
  /\ file_lines = <<>>
  /\ rng = 0
  /\ now = 0
  /\ pc = "idle"
  /\ lines = <<>>
  /\ i = 0
  /\ current_message = <<>>
  /\ current_speaker = NoneVal
  /\ base_timestamp = 0
  /\ self_messages = <<>>
  /\ self_current_speaker = NoneVal
  /\ parse_result = <<>>
  /\ out_file = <<>>
  /\ cur_src = <<>>
  /\ msg_src = <<>>
  /\ draws = 0
  /\ call_no = 1
  /\ earlier = NoEarlierRun
  /\ parser_exit = 0

NoFile == [readable |-> FALSE, data |-> ParsedDocument(<<>>)]

BatchIdle ==
  /\ messages = <<>>
  /\ batch_size = BATCH_SIZE
  /\ total_batches = 0
  /\ batch_num = 0
  /\ total_success = 0
  /\ total_failed = 0
  /\ posted = <<>>
  /\ outcomes = <<>>
  /\ bpc = "idle"
  /\ success = FALSE
  /\ exit_status = 0

PayloadIdle ==
  /\ stage = Applied("idle", 0, 0)
  /\ payload = NoPayload

ImportIdle ==
  /\ script = "idle"
  /\ ipc = "idle"
  /\ requests = <<>>
  /\ answers = <<>>
  /\ run_ok = FALSE
  /\ script_exit = 0

\* conversation_parser.py run on a transcript
Init ==
  /\ ParserInit
  /\ conv_file = NoFile
  /\ BatchIdle
  /\ PayloadIdle
  /\ ImportIdle

Next ==
  \/ ParseStart
  \/ LoopBlank
  \/ LoopSpeakerChange
  \/ LoopContinue
  \/ FinalFlush
  \/ MainSave
  \/ MainNoMessages

Spec == Init /\ [][Next]_vars

\* conversation_parser.py with parse_conversation called twice on one input
ReparseNext ==
  \/ Next
  \/ ParseAgain
  \/ ParseAgainFresh

ReparseSpec == Init /\ [][ReparseNext]_vars

\* batch_import_history.py run on a parsed conversation
BatchInit ==
  /\ ParserIdle
  /\ PayloadIdle
  /\ ImportIdle
  /\ messages = <<>>
  /\ \E input \in BatchInputs :
       /\ batch_size = input[2]
       /\ \/ conv_file = [readable |-> TRUE,
                          data |-> ParsedDocument(RotatingMessages(input[1]))]
          \/ conv_file = NoFile
  /\ total_batches = 0
  /\ batch_num = 0
  /\ total_success = 0
  /\ total_failed = 0
  /\ posted = <<>>
  /\ outcomes = <<>>
  /\ bpc = "start"
  /\ success = FALSE
  /\ exit_status = 0

BatchNext ==
  \/ BatchLoad
  \/ BatchSubmit
  \/ BatchReply
  \/ BatchFinish
  \/ BatchExit

BatchSpec == BatchInit /\ [][BatchNext]_vars

\* one of the single-request import scripts run on a parsed conversation
ImportInit ==
  /\ ParserIdle
  /\ BatchIdle
  /\ PayloadIdle
  /\ script \in {"history", "importer", "migration"}
  /\ \/ \E n \in 0..MaxMessages :
          conv_file = [readable |-> TRUE,
                       data |-> ParsedDocument(RotatingMessages(n))]
     \/ conv_file = NoFile
  /\ ipc = "start"
  /\ requests = <<>>
  /\ answers = <<>>
  /\ run_ok = FALSE
  /\ script_exit = 0

ImportNext ==
  \/ HistoryImport
  \/ ImporterConnectivity
  \/ ImporterImport
  \/ MigrationSitePassword
  \/ MigrationRegister
  \/ MigrationLogin
  \/ MigrationAccess
  \/ MigrationImport
  \/ MigrationVerify
  \/ ScriptExit

ImportSpec == ImportInit /\ [][ImportNext]_vars

\* any one of the four import scripts run on a parsed conversation
AnyImportInit == BatchInit \/ ImportInit

AnyImportNext == BatchNext \/ ImportNext

AnyImportSpec == AnyImportInit /\ [][AnyImportNext]_vars

\* the payload functions applied to a parsed conversation
PayloadInit ==
  /\ ParserIdle
  /\ BatchIdle
  /\ ImportIdle
  /\ \E rs \in SeqsUpTo({"kai", "aletheia", "system"}, MaxMessages) :
       conv_file = [readable |-> TRUE, data |-> ParsedDocument(MessagesWithRoles(rs))]
  /\ stage = Applied("input", 0, 0)
  /\ payload = NoPayload

PayloadNext ==
  \/ ApplyCreateBatch
  \/ ApplyFormatForImport
  \/ ApplyImporterPrepare
  \/ ApplyMigrationPrepare

PayloadSpec == PayloadInit /\ [][PayloadNext]_vars

\* ------------------------------------------------------------------------
\* Properties of batch_import_history.py (BatchSpec)
\* ------------------------------------------------------------------------
Finished == bpc \in {"returned", "done"}

Source == conv_file.data.messages

CeilDiv(n, b) == IF n % b = 0 THEN n \div b ELSE (n \div b) + 1

BatchOf(k) == posted[k].request.data.messages

RECURSIVE ConcatBatches(_)
ConcatBatches(k) == IF k = 0 THEN <<>> ELSE ConcatBatches(k - 1) \o BatchOf(k)

\* the parsed message a payload message was made from
Original(m) ==
  [ id |-> m.externalId,
    role |-> m.role,
    content |-> m.content,
    timestamp |-> m.timestamp,
    metadata |-> [ source |-> m.metadata.source,
                   line_start |-> m.metadata.line_start,
                   line_end |-> m.metadata.line_end,
                   imported_at |-> m.metadata.imported_at ] ]

\* C1: when batch_import has run over n messages with batch size b, it has
\* built exactly ceil(n/b) batches, every batch but the last holds b
\* messages, the last holds between 1 and b, and the batches concatenated in
\* order are the original message sequence.
C1_Partition ==
  (Finished /\ conv_file.readable) =>
    LET all == ConcatBatches(Len(posted)) IN
      /\ Len(posted) = CeilDiv(Len(Source), batch_size)
      /\ \A k \in 1..(Len(posted) - 1) : Len(BatchOf(k)) = batch_size
      /\ Len(posted) > 0 => Len(BatchOf(Len(posted))) \in 1..batch_size
      /\ Len(all) = Len(Source)
      /\ \A k \in 1..Len(all) : Original(all[k]) = Source[k]

C1_Witness ==
  /\ bpc = "done"
  /\ Len(posted) >= 2
  /\ Len(BatchOf(Len(posted))) < batch_size
  /\ Len(BatchOf(1)) = batch_size

\* C2: the j-th message (from 0) of the k-th batch (from 1) carries
\* original_order (k-1)*batch_size + j; with batch size 50 and 120 messages
\* the third batch carries exactly 100..119.
C2_OriginalOrder ==
  /\ \A k \in 1..Len(posted) : \A j \in 1..Len(BatchOf(k)) :
       BatchOf(k)[j].metadata.original_order = (k - 1) * batch_size + (j - 1)
  /\ (batch_size = 50 /\ Len(Source) = 120 /\ Len(posted) >= 3) =>
       {BatchOf(3)[j].metadata.original_order : j \in 1..Len(BatchOf(3))} = 100..119

C2_Witness ==
  /\ batch_size = 50
  /\ Len(Source) = 120
  /\ Len(posted) = 3
  /\ Len(BatchOf(3)) = 20

IsFailedReply(reply) ==
  reply.kind = "exception" \/ (reply.kind = "http" /\ reply.status # 200)

\* C3: when the submission of a batch raises or is answered with a status
\* other than 200, import_batch returns (False, 0, size of the batch), and
\* the step adds 0 to total_success and the size of the batch to
\* total_failed.
C3_FailedBatch ==
  [][ (Len(outcomes') = Len(outcomes) + 1
        /\ IsFailedReply(outcomes'[Len(outcomes')].reply)) =>
      LET size == Len(BatchOf(Len(posted))) IN
        /\ outcomes'[Len(outcomes')].ret = <<FALSE, 0, size>>
        /\ total_success' = total_success
        /\ total_failed' = total_failed + size ]_vars

C3_Witness ==
  /\ Len(outcomes) >= 2
  /\ outcomes[Len(outcomes)].reply.kind = "exception"
  /\ outcomes[1].reply.status = 500
  /\ Len(BatchOf(Len(outcomes))) >= 2
  /\ total_failed = Len(BatchOf(1)) + Len(BatchOf(2))

\* C4: batches are submitted with the numbers 1, 2, ... in this order, each
\* once and each covering its own slice of the messages; a batch is
\* submitted only when every earlier one has been answered; and whatever
\* the answers were, the finished run has submitted all ceil(n/b) batches.
C4_InOrder ==
  /\ \A k \in 1..Len(posted) :
       /\ posted[k].num = k
       /\ Len(BatchOf(k)) > 0
       /\ BatchOf(k)[1].externalId = Source[(k - 1) * batch_size + 1].id
  /\ Len(outcomes) <= Len(posted)
  /\ Len(posted) <= Len(outcomes) + 1
  /\ (Len(posted) = Len(outcomes) + 1) <=> (bpc = "waiting")
  /\ (Finished /\ conv_file.readable) =>
       /\ Len(posted) = CeilDiv(Len(Source), batch_size)
       /\ Len(outcomes) = Len(posted)

C4_Witness ==
  /\ bpc = "done"
  /\ Len(posted) >= 3
  /\ ~outcomes[1].ret[1]
  /\ outcomes[2].reply.kind = "exception"
  /\ outcomes[3].ret[1]

\* the successful count the endpoint reported for a request
Reported(reply) ==
  IF reply.kind = "http" /\ reply.status = 200 /\ reply.json_ok
     /\ "successful" \in DOMAIN reply.json
  THEN reply.json.successful ELSE 0

RECURSIVE SumReported(_)
SumReported(k) ==
  IF k = 0 THEN 0 ELSE SumReported(k - 1) + Reported(outcomes[k].reply)

\* C5: batch_import returns success exactly when the successful counts
\* reported for the submitted batches sum to more than zero.
C5_PartialSuccess ==
  Finished => (success <=> SumReported(Len(outcomes)) > 0)

C5_Witness ==
  /\ bpc = "done"
  /\ success
  /\ exit_status = 0
  /\ \E k \in 1..Len(outcomes) : IsFailedReply(outcomes[k].reply)
  /\ total_failed > 0

\* C7: in every submitted batch each message keeps every key of its parsed
\* metadata with the value unchanged, the four import keys are added, and
\* the messages batch_import holds stay the messages that were loaded.
C7_MetadataAdditive ==
  /\ \A k \in 1..Len(posted) : \A j \in 1..Len(BatchOf(k)) :
       LET sent == BatchOf(k)[j].metadata
           orig == Source[(k - 1) * batch_size + j].metadata
       IN /\ \A key \in DOMAIN orig : key \in DOMAIN sent /\ sent[key] = orig[key]
          /\ DOMAIN sent = DOMAIN orig \cup {"historical_import", "foundational_memory",
                                              "batch_import", "original_order"}
          /\ sent.historical_import = TRUE
          /\ sent.foundational_memory = TRUE
          /\ sent.batch_import = TRUE
          /\ sent.original_order = (k - 1) * batch_size + j - 1
  /\ (bpc \in {"loop", "waiting"} \/ (Finished /\ conv_file.readable)) =>
       messages = Source

C7_Witness ==
  /\ bpc = "waiting"
  /\ Len(posted) = 2
  /\ BatchOf(2)[1].metadata.line_start = batch_size + 1
  /\ BatchOf(2)[1].metadata.source = "historical_conversation"

\* ------------------------------------------------------------------------
\* Properties of payload preparation (PayloadSpec)
\* ------------------------------------------------------------------------
RECURSIVE IdsOf(_, _)
IdsOf(msgs, skip_system) ==
  IF msgs = <<>> THEN <<>>
  ELSE IF skip_system /\ Head(msgs).role = "system" THEN IdsOf(Tail(msgs), skip_system)
  ELSE <<Head(msgs).id>> \o IdsOf(Tail(msgs), skip_system)

ExternalIds == [k \in 1..Len(payload.data.messages) |-> payload.data.messages[k].externalId]

\* the messages a stage hands on, as a slice or selection of the input
SentFrom ==
  IF stage.fn = "create_batch"
  THEN IdsOf(SubSeq(Source, stage.start_idx + 1,
                    Min(stage.start_idx + stage.size, Len(Source))), FALSE)
  ELSE IF stage.fn = "format_for_import" THEN IdsOf(Source, FALSE)
  ELSE IdsOf(Source, TRUE)

\* C6: whichever upload stage built the payload, its messages carry as
\* externalId the ids of the input messages they were made from, in order,
\* and distinct messages carry distinct externalIds.
C6_ExternalId ==
  stage.fn \in {"create_batch", "format_for_import",
                "importer_prepare_import_payload",
                "migration_prepare_import_payload"} =>
    /\ ExternalIds = SentFrom
    /\ \A a, b \in 1..Len(ExternalIds) : a # b => ExternalIds[a] # ExternalIds[b]

C6_Witness ==
  /\ stage.fn = "migration_prepare_import_payload"
  /\ Len(payload.data.messages) >= 2
  /\ Len(payload.data.messages) < Len(Source)
  /\ Source[1].role = "system"

\* ------------------------------------------------------------------------
\* Properties of conversation_parser.py (Spec)
\* ------------------------------------------------------------------------
Parsed == pc \in {"returned", "done"}

Input == IF file_readable THEN file_lines ELSE <<>>

\* the numbers of the non-blank lines, in order
NonBlank ==
  SelectSeq([k \in 1..Len(Input) |-> k], LAMBDA k : Strip(Input[k]) # <<>>)

\* the role the parser assigns to line k
RoleOf(k) == detect_speaker_change(Input[k], k, self_current_speaker)

\* the maximal runs of consecutive line numbers of ks with one role: a run
\* starts at the first line and wherever the role differs from that of the
\* line before
Runs(ks) ==
  LET starts == SelectSeq([j \in 1..Len(ks) |-> j],
                          LAMBDA j : j = 1 \/ RoleOf(ks[j]) # RoleOf(ks[j - 1]))
  IN [r \in 1..Len(starts) |->
        SubSeq(ks, starts[r],
               IF r < Len(starts) THEN starts[r + 1] - 1 ELSE Len(ks))]

\* the cleaned text of a run of lines
RunText(run) == clean_message(Join([k \in 1..Len(run) |-> Input[run[k]]]))

\* the runs that clean to a non-empty text
KeptRuns == SelectSeq(Runs(NonBlank), LAMBDA run : RunText(run) # <<>>)

\* C8: parse_conversation returns as many messages as there are maximal
\* same-role runs of non-blank lines whose cleaned text is non-empty; no
\* returned message has an empty content.
C8_MessageCount ==
  Parsed =>
    /\ Len(parse_result) = Len(KeptRuns)
    /\ \A k \in 1..Len(parse_result) : parse_result[k].content # <<>>
    /\ NonBlank = <<>> => parse_result = <<>>

C8_Witness ==
  /\ pc = "done"
  /\ Len(parse_result) >= 1
  /\ Len(KeptRuns) < Len(Runs(NonBlank))
  /\ Len(NonBlank) < Len(Input)

IsPrefix(s, t) == Len(s) <= Len(t) /\ SubSeq(t, 1, Len(s)) = s

\* every message is made of its own group of non-blank source lines, and
\* the groups follow each other in source order
GroupsInSourceOrder ==
  /\ Len(msg_src) = Len(self_messages)
  /\ \A k \in 1..Len(msg_src) :
       /\ msg_src[k] # <<>>
       /\ \A a \in 1..Len(msg_src[k]) :
            /\ msg_src[k][a] \in 1..Len(Input)
            /\ Strip(Input[msg_src[k][a]]) # <<>>
            /\ a > 1 => msg_src[k][a - 1] < msg_src[k][a]
       /\ self_messages[k].content = RunText(msg_src[k])
       /\ k > 1 => msg_src[k - 1][Len(msg_src[k - 1])] < msg_src[k][1]
  /\ Parsed => msg_src = KeptRuns

\* C9: the messages are made of disjoint groups of non-blank source lines,
\* the groups of earlier messages lie before those of later ones, every
\* line of a kept run is in exactly one message, and self.messages only
\* grows at its end.
C9_SourceOrder ==
  []GroupsInSourceOrder /\ [][IsPrefix(self_messages, self_messages')]_vars

C9_Witness ==
  /\ pc = "done"
  /\ Len(self_messages) = 3
  /\ Len(msg_src[2]) >= 1
  /\ msg_src[1][1] < msg_src[3][1]

\* C10: the k-th emitted message (from 0) has timestamp base_timestamp +
\* 2k minutes, base_timestamp being fixed once the loop has started, so
\* timestamps strictly increase and a discarded run uses no slot.
C10_Timestamps ==
  /\ [](\A k \in 1..Len(self_messages) :
          /\ self_messages[k].timestamp = base_timestamp + (k - 1) * 2
          /\ k > 1 => self_messages[k - 1].timestamp < self_messages[k].timestamp)
  /\ [][pc # "start" => base_timestamp' = base_timestamp]_vars

C10_Witness ==
  /\ pc = "returned"
  /\ Len(self_messages) = 2
  /\ Len(Runs(NonBlank)) = 3
  /\ msg_src[1] = Runs(NonBlank)[1]
  /\ msg_src[2] = Runs(NonBlank)[3]
  /\ self_messages[2].timestamp = base_timestamp + 2

\* ------------------------------------------------------------------------
\* Properties of a second call of parse_conversation (ReparseSpec)
\* ------------------------------------------------------------------------
\* two message lists that agree in everything but metadata.imported_at
SameButParseTime(a, b) ==
  /\ Len(a) = Len(b)
  /\ \A k \in 1..Len(a) :
       /\ a[k].id = b[k].id
       /\ a[k].role = b[k].role
       /\ a[k].content = b[k].content
       /\ a[k].timestamp = b[k].timestamp
       /\ a[k].metadata.line_start = b[k].metadata.line_start
       /\ a[k].metadata.line_end = b[k].metadata.line_end

\* C11: when parse_conversation is called a second time on the same input,
\* on the same parser or on a new one, with the same base timestamp, the
\* list it returns equals the list the first call returned in length and,
\* message by message, in id, role, content, timestamp and line range.
C11_Idempotent ==
  (call_no = 2 /\ pc = "returned" /\ earlier.base = base_timestamp) =>
    SameButParseTime(parse_result, earlier.result)

\* ------------------------------------------------------------------------
\* Properties of speaker detection (Spec)
\* ------------------------------------------------------------------------
\* whether rule n of detect_speaker_change matches a non-blank line
RuleMatches(n, rawline, line_number) ==
  LET line == LStripSet(rawline, {"BOM"}) IN
    CASE n = 1 -> Strip(line) \in SystemStrings
      [] n = 2 -> \E p \in PromptPhrasings : StartsWith(Strip(line), p)
      [] n = 3 -> MatchesAletheiaPattern(line)
      [] n = 4 -> self_current_speaker = "aletheia" /\ LooksContinued(line)
      [] n = 5 -> LooksShortReply(line)
      [] n = 6 -> line_number = 1 \/ StartsWith(Strip(line), <<"H", "i", ",", " ", "h", "o", "w", " ", "a", "r", "e", " ", "y", "o", "u", "?">>)
      [] n = 7 -> TRUE

\* the role rule n gives
RuleRole(n) ==
  CASE n = 1 -> "system"
    [] n \in {2, 5, 6} -> "kai"
    [] n \in {3, 4} -> "aletheia"
    [] n = 7 -> IF self_current_speaker # NoneVal THEN self_current_speaker ELSE "kai"

\* the highest-priority rule that matches
FirstRule(rawline, line_number) ==
  CHOOSE n \in 1..7 :
    /\ RuleMatches(n, rawline, line_number)
    /\ \A m \in 1..(n - 1) : ~RuleMatches(m, rawline, line_number)

\* C12: every non-blank line the parser consumes gets the role of the
\* first of the rules 1..7 that matches it; in particular a system string
\* is system even when it is a short question, and a line matching an
\* aletheia pattern (and neither rule 1 nor 2) is aletheia even when it is
\* a short question.
C12_PriorityOrder ==
  [][ (pc = "loop" /\ i' = i + 1 /\ Strip(lines[i + 1]) # <<>>) =>
        LET line == lines[i + 1]
            ln == i + 1
        IN /\ current_speaker' = RuleRole(FirstRule(line, ln))
           /\ (RuleMatches(1, line, ln) /\ RuleMatches(5, line, ln)) =>
                current_speaker' = "system"
           /\ (RuleMatches(3, line, ln) /\ RuleMatches(5, line, ln)
                 /\ ~RuleMatches(1, line, ln) /\ ~RuleMatches(2, line, ln)) =>
                current_speaker' = "aletheia" ]_vars

C12_Witness ==
  /\ pc = "loop"
  /\ i = 2
  /\ lines = PriorityLines
  /\ RuleMatches(1, lines[2], 2) /\ RuleMatches(5, lines[2], 2)
  /\ RuleMatches(3, lines[1], 1) /\ RuleMatches(5, lines[1], 1) /\ RuleMatches(6, lines[1], 1)
  /\ current_speaker = "system"
  /\ Len(self_messages) = 1
  /\ self_messages[1].role = "aletheia"

\* C13: when the speaker detected last is aletheia and the next non-blank
\* line matches none of the rules 1..3 but starts with the indentation or
\* the bullet of a continuation, the line is given to aletheia and is
\* appended to the current message, and no message is emitted.
C13_Continuation ==
  [][ (pc = "loop" /\ i' = i + 1 /\ Strip(lines[i + 1]) # <<>>
         /\ current_speaker = "aletheia"
         /\ \A n \in 1..3 : ~RuleMatches(n, lines[i + 1], i + 1)
         /\ LooksContinued(LStripSet(lines[i + 1], {"BOM"}))) =>
        /\ current_speaker' = "aletheia"
        /\ current_message' = Append(current_message, lines[i + 1])
        /\ self_messages' = self_messages ]_vars

\* C14: a non-blank line that matches none of the rules 1..6 (rule 4 read
\* with the speaker detected last) gets the role detected last, is
\* appended to the current message and emits nothing; it gets kai only
\* when no role has been detected yet.
C14_Fallback ==
  [][ (pc = "loop" /\ i' = i + 1 /\ Strip(lines[i + 1]) # <<>>
         /\ \A n \in {1, 2, 3, 5, 6} : ~RuleMatches(n, lines[i + 1], i + 1)
         /\ ~(current_speaker = "aletheia"
                /\ LooksContinued(LStripSet(lines[i + 1], {"BOM"})))) =>
        IF current_speaker # NoneVal
        THEN /\ current_speaker' = current_speaker
             /\ current_message' = Append(current_message, lines[i + 1])
             /\ self_messages' = self_messages
        ELSE current_speaker' = "kai" ]_vars

\* ------------------------------------------------------------------------
\* Properties of the parse loop (Spec)
\* ------------------------------------------------------------------------
\* the lines of ls that are not blank
Compact(ls) == SelectSeq(ls, LAMBDA l : Strip(l) # <<>>)

\* the (role, content) pairs of the speaker turns of a transcript without
\* blank lines: a turn is a maximal run of lines of one role, and a turn
\* whose text cleans to nothing gives no pair
PairsOf(ls) ==
  LET role == [k \in 1..Len(ls) |-> detect_speaker_change(ls[k], k, NoneVal)]
      starts == SelectSeq([j \in 1..Len(ls) |-> j],
                          LAMBDA j : j = 1 \/ role[j] # role[j - 1])
      text == [r \in 1..Len(starts) |->
                 clean_message(Join(SubSeq(ls, starts[r],
                   IF r < Len(starts) THEN starts[r + 1] - 1 ELSE Len(ls))))]
      all == [r \in 1..Len(starts) |-> <<role[starts[r]], text[r]>>]
  IN SelectSeq(all, LAMBDA p : p[2] # <<>>)

\* the (role, content) pairs of a list of messages
Pairs(msgs) == [k \in 1..Len(msgs) |-> <<msgs[k].role, msgs[k].content>>]

\* C15: the (role, content) pairs parse_conversation returns for a
\* transcript are those of the transcript with its blank lines deleted, so
\* transcripts that differ only in blank lines give the same pairs; and
\* two non-blank lines of one role with only blank lines between them are
\* in the same message.
C15_BlankLines ==
  Parsed =>
    /\ Pairs(parse_result) = PairsOf(Compact(Input))
    /\ \A j \in 1..(Len(NonBlank) - 1) :
         RoleOf(NonBlank[j]) = RoleOf(NonBlank[j + 1]) =>
           \A k \in 1..Len(msg_src) :
             (\E a \in 1..Len(msg_src[k]) : msg_src[k][a] = NonBlank[j]) <=>
             (\E a \in 1..Len(msg_src[k]) : msg_src[k][a] = NonBlank[j + 1])

C15_Witness ==
  /\ pc = "done"
  /\ Input = BlankLines
  /\ Compact(Input) # Input
  /\ Len(parse_result) = 2
  /\ msg_src[1] = <<2, 4>>
  /\ msg_src[2] = <<6>>
  /\ Pairs(parse_result)[1][1] = "kai"

\* C16: metadata.line_start and metadata.line_end of every emitted message
\* are the 1-indexed numbers of the first and of the last source line
\* accumulated into it, so line_start <= line_end and the range of a
\* message ends before that of the next one begins.
C16_LineRange ==
  \A k \in 1..Len(self_messages) :
    LET meta == self_messages[k].metadata IN
      /\ Len(msg_src) = Len(self_messages)
      /\ meta.line_start = msg_src[k][1]
      /\ meta.line_end = msg_src[k][Len(msg_src[k])]
      /\ meta.line_start <= meta.line_end
      /\ k > 1 => self_messages[k - 1].metadata.line_end < meta.line_start

\* C17: parsing the four lines of ScenarioLines returns 3 messages, the
\* first of role kai, the second of role aletheia, and the line
\* "Google Search" alone is the content of a message of role system.
C17_Scenario ==
  (Parsed /\ Input = ScenarioLines) =>
    /\ Len(parse_result) = 3
    /\ parse_result[1].role = "kai"
    /\ parse_result[2].role = "aletheia"
    /\ \E k \in 1..Len(parse_result) :
         /\ parse_result[k].role = "system"
         /\ parse_result[k].content = <<"G", "o", "o", "g", "l", "e", " ", "S", "e", "a", "r", "c", "h">>

\* C17 as amended: parsing the four lines of ScenarioLines returns 4
\* messages: kai for the first line, aletheia for the second, system for
\* the line "Google Search" alone, and aletheia for the fourth line.
C17_ScenarioFour ==
  (Parsed /\ Input = ScenarioLines) =>
    Pairs(parse_result) =
      << <<"kai", <<"H", "i", ",", " ", "h", "o", "w", " ", "a", "r", "e", " ", "y", "o", "u", "?">>>>,
         <<"aletheia", <<"I", " ", "a", "m", " ", "d", "o", "i", "n", "g", " ", "w", "e", "l", "l", ",", " ", "t", "h", "a", "n", "k", " ", "y", "o", "u", ".">>>>,
         <<"system", <<"G", "o", "o", "g", "l", "e", " ", "S", "e", "a", "r", "c", "h">>>>,
         <<"aletheia", <<"T", "h", "a", "t", "'", "s", " ", "a", "n", " ", "i", "n", "t", "e", "r", "e", "s", "t", "i", "n", "g", " ", "q", "u", "e", "s", "t", "i", "o", "n", ".">>>> >>

C17_Witness ==
  /\ pc = "done"
  /\ Input = ScenarioLines
  /\ Len(parse_result) = 4
  /\ msg_src = <<<<1>>, <<2>>, <<3>>, <<4>>>>

\* ------------------------------------------------------------------------
\* Properties of main of conversation_parser.py (Spec)
\* ------------------------------------------------------------------------
\* the run has found nothing to save: the file could not be read, or
\* parse_conversation returned no message
NothingParsed == Parsed /\ (~file_readable \/ parse_result = <<>>)

\* C18: when the source file cannot be read or parsing yields no message,
\* the run has an empty message list and writes nothing: the output file
\* is only ever written by a run that read its file and parsed at least
\* one message.
C18_NoOutput ==
  /\ []((Parsed /\ ~file_readable) => parse_result = <<>>)
  /\ [](NothingParsed => (self_messages = <<>> /\ out_file = <<>>))
  /\ [][out_file' # out_file => (file_readable /\ parse_result # <<>>)]_vars

C18_Witness ==
  /\ pc = "done"
  /\ file_readable
  /\ Len(Input) >= 2
  /\ NonBlank # <<>>
  /\ parse_result = <<>>
  /\ out_file = <<>>

\* ------------------------------------------------------------------------
\* Properties of the exit status of the scripts (Spec, BatchSpec, ImportSpec)
\* ------------------------------------------------------------------------
\* the single-request import script has ended
ScriptEnded == ipc \in {"done", "crashed"}

\* C19: a script that could not load its input ends with a non-zero exit
\* status: the parser when its file cannot be read or yields no message,
\* an import script when parsed_conversation.json cannot be read.
C19_LoadFailureExit ==
  /\ (pc = "done" /\ NothingParsed) => parser_exit # 0
  /\ (bpc = "done" /\ ~conv_file.readable) => exit_status # 0
  /\ (ScriptEnded /\ ~conv_file.readable) => script_exit # 0

\* the number of messages the reply to the import request of a
\* single-request script reports as imported (it sends at most one)
SingleImported ==
  LET ks == {k \in 1..Len(requests) : requests[k].path = ImportPath} IN
    IF ks = {} THEN 0 ELSE Reported(answers[CHOOSE k \in ks : TRUE])

\* C20: an import script that ends with no message imported has reported
\* failure and exits with a non-zero status, also when the single import
\* request of import_to_consciousness or of run_complete_migration was
\* answered with status 200 and a successful count of 0.
C20_ZeroImportsFail ==
  /\ (ScriptEnded /\ SingleImported = 0) => (~run_ok /\ script_exit # 0)
  /\ (bpc = "done" /\ SumReported(Len(outcomes)) = 0) =>
       (~success /\ exit_status # 0)

\* ------------------------------------------------------------------------
\* Properties of the order of the steps of the import scripts (AnyImportSpec)
\* ------------------------------------------------------------------------
\* the positions of the requests sent to the import endpoint
ImportRequests == {k \in 1..Len(requests) : requests[k].path = ImportPath}

\* the k-th request was answered with the given status
Answered(k, status) ==
  k <= Len(answers) /\ answers[k].kind = "http" /\ answers[k].status = status

\* the number of set-up requests of a migration whose set-up succeeded: the
\* site password accepted, then the progenitor registered (201) or found
\* to exist (400) and logged in, then the status read with the session; 0
\* when the set-up has not succeeded
MigrationSetUp ==
  IF ~(Len(requests) >= 1 /\ requests[1].path = SitePasswordPath
         /\ Answered(1, 200) /\ Get(answers[1].json, "success", FALSE))
  THEN 0
  ELSE IF ~(Len(requests) >= 2 /\ requests[2].path = RegisterPath)
  THEN 0
  ELSE IF Answered(2, 201)
  THEN IF Len(requests) >= 3 /\ requests[3].path = StatusPath /\ Answered(3, 200)
       THEN 3 ELSE 0
  ELSE IF Answered(2, 400)
          /\ Len(requests) >= 4
          /\ requests[3].path = LoginPath /\ Answered(3, 200)
          /\ requests[4].path = StatusPath /\ Answered(4, 200)
  THEN 4
  ELSE 0

\* the number of set-up requests of the script that runs when its set-up,
\* the load of the file included, has succeeded, and -1 when it has not
SetUpDone ==
  IF ~conv_file.readable THEN -1
  ELSE IF script = "history" THEN 0
  ELSE IF script = "importer"
  THEN IF Len(requests) >= 1 /\ requests[1].path = StatusPath /\ Answered(1, 200)
       THEN 1 ELSE -1
  ELSE IF MigrationSetUp > 0 THEN MigrationSetUp ELSE -1

\* C21: an import request is sent only when every set-up step of the
\* script has succeeded before it, in the order of the script, the load of
\* the file being the last; a run whose set-up failed ends with failure, a
\* non-zero exit status and no import request.
C21_SetUpFirst ==
  /\ \A k \in ImportRequests : SetUpDone >= 0 /\ k = SetUpDone + 1
  /\ (ScriptEnded /\ SetUpDone < 0) =>
       (~run_ok /\ script_exit # 0 /\ ImportRequests = {})
  /\ posted # <<>> => conv_file.readable
  /\ (bpc = "done" /\ ~conv_file.readable) =>
       (~success /\ exit_status # 0 /\ posted = <<>>)

C21_Witness ==
  /\ script = "migration"
  /\ ipc = "verify"
  /\ MigrationSetUp = 4
  /\ ImportRequests = {5}
  /\ Len(requests[5].body.data.messages) >= 1

\* the connectivity check of run_import succeeded and the file loaded
ImporterSetUp == script = "importer" /\ SetUpDone = 1

\* C22: a run of run_import whose connectivity check succeeded and whose
\* file loaded has, when it ends, sent the prepared payload to the import
\* endpoint exactly once and returned a boolean, true exactly on a 200
\* reply, instead of ending in an unhandled error.
C22_PostOnce ==
  (ImporterSetUp /\ ScriptEnded) =>
     /\ ipc = "done"
     /\ Cardinality(ImportRequests) = 1
     /\ \A k \in ImportRequests :
          /\ \E clock \in 0..MaxClock :
               requests[k].body = importer_prepare_import_payload(conv_file.data, clock)
          /\ run_ok = Answered(k, 200)

\* the import request was sent and import_conversation returned True: the
\* reply had status 200 and a body that could be read
ImportSucceeded ==
  \E k \in ImportRequests : Answered(k, 200) /\ answers[k].json_ok

\* the positions of the requests of the verification step, the ones sent
\* after the import request
VerifyRequests == {k \in 1..Len(requests) : \E j \in ImportRequests : j < k}

\* the verification step ran and verify_import returned False: its status
\* request was not answered with 200
VerifyFailed ==
  /\ VerifyRequests # {}
  /\ \A k \in VerifyRequests :
       requests[k].path = StatusPath /\ ~Answered(k, 200)

DiscardedRuns == SelectSeq(Runs(NonBlank), LAMBDA run : RunText(run) = <<>>)

\* a discarded run lies between the lines of message k and those of the
\* message after it
DiscardedBetween(k) ==
  \E d \in 1..Len(DiscardedRuns) :
     /\ msg_src[k][Len(msg_src[k])] < DiscardedRuns[d][1]
     /\ DiscardedRuns[d][Len(DiscardedRuns[d])] < msg_src[k + 1][1]

\* C24: in the messages parse_conversation returns, every message is one
\* maximal run of lines of one speaker and has that speaker's role, and
\* two consecutive messages have the same role only if a run of lines
\* between them was discarded for cleaning to the empty text; when no run
\* is discarded, consecutive messages differ in role.
C24_AdjacentRoles ==
  Parsed =>
    /\ Len(msg_src) = Len(parse_result)
    /\ \A k \in 1..Len(parse_result) :
         /\ \E r \in 1..Len(Runs(NonBlank)) : Runs(NonBlank)[r] = msg_src[k]
         /\ parse_result[k].role = RoleOf(msg_src[k][1])
    /\ \A k \in 1..(Len(parse_result) - 1) :
         parse_result[k].role = parse_result[k + 1].role => DiscardedBetween(k)
    /\ DiscardedRuns = <<>> =>
         \A k \in 1..(Len(parse_result) - 1) :
            parse_result[k].role # parse_result[k + 1].role

C24_Witness ==
  /\ pc = "done"
  /\ Len(parse_result) = 2
  /\ parse_result[1].role = parse_result[2].role
  /\ DiscardedBetween(1)
  /\ Len(Input) = 3

====
